---------------------------- MODULE Spec2Model ----------------------------
(***************************************************************************)
(* Model of calc.cpp: a calculator over Roman numerals.                    *)
(*                                                                         *)
(*   RomanConverter    to_int64 / to_roman                                 *)
(*   Element           tokens, priority(), divide(), proceed()             *)
(*   ExpressionSolver  the constructor (infix text -> Reverse Polish       *)
(*                     notation in out) and solve()                        *)
(*                                                                         *)
(* A piece of text (std::string) is a sequence of one-character strings.   *)
(***************************************************************************)
EXTENDS Integers, Sequences, FiniteSets, TLC

VARIABLES
    raw,        \* the line handed to ExpressionSolver(std::string)
    data_,      \* ExpressionSolver::data_
    position_,  \* ExpressionSolver::position_
    stack,      \* ExpressionSolver::stack
    out,        \* ExpressionSolver::out
    err,        \* the std::logic_error thrown, NoError when none
    answer,     \* the string solve() returned
    pc,         \* where the program is
    value,      \* RomanConverter under test: the integer given to to_roman
    roman,      \* ... the text to_roman returned
    back        \* ... what to_int64 made of that text

vars == <<raw, data_, position_, stack, out, err, answer, pc, value, roman, back>>

-----------------------------------------------------------------------------
(* Bounds of the model *)

\* to_roman is applied to every integer of -MaxValue .. MaxValue
MaxValue == 4001
\* operands of the division expressions: -MaxOperand .. MaxOperand
MaxOperand == 9
\* longest line of the bracket expressions
MaxBracketLen == 6
\* longest line of the lines with unrecognised symbols and white space
MaxSymbolLen == 5
\* longest line of the general expressions
MaxExprLen == 5
\* longest run of M in the literals of the large expressions
MaxThousands == 4

-----------------------------------------------------------------------------
(* Arithmetic of the C++ built-in types *)

abs(x) == IF x < 0 THEN -x ELSE x

\* the built-in / on integers: the quotient with its fraction discarded
CppDiv(a, b) ==
    IF (a < 0) = (b < 0) THEN abs(a) \div abs(b) ELSE -(abs(a) \div abs(b))

\* the largest int
INT_MAX == 2147483647

\* int64_t -> int, as at the call divide(left->value(), right->value()):
\* the value modulo 2^32 that an int holds
RECURSIVE ToInt(_)
ToInt(x) ==
    IF x > INT_MAX THEN ToInt((x - INT_MAX - 1) - INT_MAX - 1)
    ELSE IF x < -INT_MAX - 1 THEN ToInt((x + INT_MAX + 1) + INT_MAX + 1)
    ELSE x

-----------------------------------------------------------------------------
(* RomanConverter *)

BOUND == 3999

\* rule_add[c]; operator[] makes a zero entry for a key the map does not hold
rule_add(c) ==
    CASE c = "I" -> 1
      [] c = "V" -> 5
      [] c = "X" -> 10
      [] c = "L" -> 50
      [] c = "C" -> 100
      [] c = "D" -> 500
      [] c = "M" -> 1000
      [] OTHER -> 0

\* rule_div holding the value of each pair (IV = 4) and not what the second
\* letter adds to the first
rule_div_pair_values(p, c) ==
    CASE p = "I" /\ c = "V" -> 4
      [] p = "I" /\ c = "X" -> 9
      [] p = "X" /\ c = "L" -> 40
      [] p = "X" /\ c = "C" -> 90
      [] p = "C" /\ c = "D" -> 400
      [] p = "C" /\ c = "M" -> 900
      [] OTHER -> 0

\* rule_div[{p, c}]; again zero for a pair the map does not hold
rule_div(p, c) ==
    CASE p = "I" /\ c = "V" -> 3
      [] p = "I" /\ c = "X" -> 8
      [] p = "X" /\ c = "L" -> 30
      [] p = "X" /\ c = "C" -> 80
      [] p = "C" /\ c = "D" -> 300
      [] p = "C" /\ c = "M" -> 800
      [] OTHER -> 0

weight == <<
    [first |-> 1000, second |-> <<"M">>],
    [first |-> 900,  second |-> <<"C", "M">>],
    [first |-> 500,  second |-> <<"D">>],
    [first |-> 400,  second |-> <<"C", "D">>],
    [first |-> 100,  second |-> <<"C">>],
    [first |-> 90,   second |-> <<"X", "C">>],
    [first |-> 50,   second |-> <<"L">>],
    [first |-> 40,   second |-> <<"X", "L">>],
    [first |-> 10,   second |-> <<"X">>],
    [first |-> 9,    second |-> <<"I", "X">>],
    [first |-> 5,    second |-> <<"V">>],
    [first |-> 4,    second |-> <<"I", "V">>],
    [first |-> 1,    second |-> <<"I">>],
    [first |-> 0,    second |-> <<"Z">>] >>

\* the char 0 that prev_literal starts as
NUL == ""

\* the for loop of to_int64, from the i-th character on
RECURSIVE to_int64_loop(_, _, _, _)
to_int64_loop(text, i, prev_literal, result) ==
    IF i > Len(text) THEN result
    ELSE LET literal == text[i]
             added == IF prev_literal # NUL /\ rule_add(prev_literal) < rule_add(literal)
                      THEN rule_div(prev_literal, literal)
                      ELSE rule_add(literal)
         IN  to_int64_loop(text, i + 1, literal, result + added)

to_int64(text) ==
    IF Len(text) = 1 /\ text[1] = "Z" THEN 0
    ELSE to_int64_loop(text, 1, NUL, 0)

\* the overflow test with >= for >
to_roman_throws_at_bound(v) == v # 0 /\ abs(v) >= BOUND

\* to_roman throws std::logic_error("Roman number overflow")
to_roman_throws(v) == v # 0 /\ abs(v) > BOUND

\* the first entry of weight, from the k-th on, that v reaches
RECURSIVE first_weight(_, _)
first_weight(v, k) ==
    IF v >= weight[k].first THEN k ELSE first_weight(v, k + 1)

\* the while loop of to_roman
RECURSIVE to_roman_loop(_, _)
to_roman_loop(v, result) ==
    IF v > 0
    THEN LET w == weight[first_weight(v, 1)]
         IN  to_roman_loop(v - w.first, result \o w.second)
    ELSE result

\* what to_roman returns when it does not throw
to_roman(v) ==
    IF v = 0 THEN <<"Z">>
    ELSE IF v < 0 THEN to_roman_loop(abs(v), <<"-">>)
    ELSE to_roman_loop(v, <<>>)

-----------------------------------------------------------------------------
(* Element *)

\* the character code the constructor Element(int value, ElementType type) is given
Ord(c) ==
    CASE c = "(" -> 40
      [] c = ")" -> 41
      [] c = "*" -> 42
      [] c = "+" -> 43
      [] c = "-" -> 45
      [] c = "/" -> 47

\* Element(int64_t value)
ValueElement(v) == [value_ |-> v, label_ |-> "VALUE", priority_ |-> 3]

\* the switch with the brackets in the case of + and -
priority_of_bracket_as_plus(c) ==
    CASE c \in {"+", "-", "(", ")"} -> 0
      [] c \in {"*", "/"} -> 1

\* the switch of Element(int value, ElementType type)
priority_of(c) ==
    CASE c \in {"+", "-"} -> 0
      [] c \in {"*", "/"} -> 1
      [] c \in {"(", ")"} -> -1

\* Element(int value, ElementType type)
TypedElement(c, type) == [value_ |-> Ord(c), label_ |-> type, priority_ |-> priority_of(c)]

divide(left, right) ==
    IF (left <= 0 /\ right < 0) \/ (left >= 0 /\ right > 0)
    THEN CppDiv(left, right)
    ELSE CppDiv(-(abs(left) + abs(right) - 1), abs(right))

\* proceed throws std::logic_error("Division by zero")
proceed_throws(element, left, right) ==
    element.value_ = Ord("/") /\ right.value_ = 0

\* the new Element proceed returns when it does not throw
proceed(element, left, right) ==
    ValueElement(
        CASE element.value_ = Ord("+") -> left.value_ + right.value_
          [] element.value_ = Ord("-") -> left.value_ - right.value_
          [] element.value_ = Ord("*") -> left.value_ * right.value_
          [] element.value_ = Ord("/") -> divide(ToInt(left.value_), ToInt(right.value_))
          [] OTHER -> 0)

-----------------------------------------------------------------------------
(* ExpressionSolver *)

NoError == [what |-> "", position |-> 0]
BadBrackets == [what |-> "Invalid bracket sequence in expression", position |-> 0]
BadFormat == [what |-> "Invalid expression format", position |-> 0]
DivisionByZero == [what |-> "Division by zero", position |-> 0]
Overflow == [what |-> "Roman number overflow", position |-> 0]
\* "Bad symbol on position " + std::to_string(p)
BadSymbol(p) == [what |-> "Bad symbol on position", position |-> p]

available_symbols == {"I", "V", "X", "L", "C", "D", "M", "Z"}

\* std::isspace in the "C" locale (the vertical tab has no TLA+ escape)
isspace(c) == c \in {" ", "\t", "\n", "\r", "\f"}

is_roman(c) == c \in available_symbols

is_operation(c) == c = "+" \/ c = "-" \/ c = "*" \/ c = "/"

\* data[i] of a std::string, i from 0; data[data.size()] is the char 0
At(data, i) == IF i < Len(data) THEN data[i + 1] ELSE NUL

is_unary(data, current) ==
    /\ \/ (current + 1 < Len(data) /\ At(data, current + 1) = "(")
       \/ is_roman(At(data, current + 1))
    /\ At(data, current) = "-"
    /\ \/ current = 0
       \/ /\ current > 0
          /\ \/ is_operation(At(data, current - 1))
             \/ At(data, current - 1) = ")"

\* the while loop of read_number: the position after the run of numerals
RECURSIVE read_number_end(_, _)
read_number_end(data, position) ==
    IF position < Len(data) /\ is_roman(At(data, position))
    THEN read_number_end(data, position + 1)
    ELSE position

\* read_number, started at position: the value returned and position_ afterwards
read_number(data, position) ==
    LET end == read_number_end(data, position)
    IN  [value |-> to_int64(SubSeq(data, position + 1, end)), position_ |-> end]

\* data_.erase(std::remove_if(..., isspace), data_.end())
remove_spaces(text) == SelectSeq(text, LAMBDA c : ~isspace(c))

Top(s) == s[Len(s)]
Pop(s) == SubSeq(s, 1, Len(s) - 1)

\* the loop of the ')' branch: tokens go to out until a bracket is on top
RECURSIVE pop_to_bracket(_, _)
pop_to_bracket(stk, o) ==
    IF stk # <<>> /\ Top(stk).label_ # "BRACKET"
    THEN pop_to_bracket(Pop(stk), Append(o, Top(stk)))
    ELSE [stack |-> stk, out |-> o]

\* the loop of the operator branch: tokens of no lower priority go to out
RECURSIVE pop_not_lower(_, _, _)
pop_not_lower(stk, o, current) ==
    IF stk # <<>> /\ Top(stk).priority_ >= current.priority_
    THEN pop_not_lower(Pop(stk), Append(o, Top(stk)), current)
    ELSE [stack |-> stk, out |-> o]

\* the loop after the scan: the rest of stack goes to out, a bracket throws
RECURSIVE flush(_)
flush(st) ==
    IF st.stack = <<>> THEN st
    ELSE IF Top(st.stack).label_ # "BINARY_OPERATION"
    THEN [st EXCEPT !.err = BadBrackets]
    ELSE flush([st EXCEPT !.out = Append(st.out, Top(st.stack)),
                          !.stack = Pop(st.stack)])

\* the error naming position_ itself, counted from 0
bad_symbol_from_zero(position) == BadSymbol(position)

\* the std::logic_error of the last branch of the main loop
bad_symbol(position) == BadSymbol(position + 1)

\* the main loop of the constructor; st holds position_, unarity, stack, out, err
RECURSIVE scan(_, _)
scan(data, st) ==
    IF ~(st.position_ < Len(data)) THEN st
    ELSE LET c == At(data, st.position_) IN
      IF is_roman(c)
      THEN LET n == read_number(data, st.position_)
           IN  scan(data, [st EXCEPT
                   !.out = Append(st.out, ValueElement(n.value * st.unarity)),
                   !.unarity = 1,
                   !.position_ = (n.position_ - 1) + 1])
      ELSE IF c = "("
      THEN scan(data, [st EXCEPT
                   !.stack = Append(st.stack, TypedElement("(", "BRACKET")),
                   !.unarity = 1,
                   !.position_ = st.position_ + 1])
      ELSE IF c = ")"
      THEN LET p == pop_to_bracket(st.stack, st.out)
           IN  IF p.stack = <<>>
               THEN [st EXCEPT !.stack = p.stack, !.out = p.out, !.err = BadBrackets]
               ELSE scan(data, [st EXCEPT
                       !.stack = Pop(p.stack),
                       !.out = p.out,
                       !.unarity = 1,
                       !.position_ = st.position_ + 1])
      ELSE IF is_operation(c)
      THEN IF is_unary(data, st.position_)
           THEN scan(data, [st EXCEPT !.unarity = -1, !.position_ = st.position_ + 1])
           ELSE LET current == TypedElement(c, "BINARY_OPERATION")
                    p == pop_not_lower(st.stack, st.out, current)
                IN  scan(data, [st EXCEPT
                        !.stack = Append(p.stack, current),
                        !.out = p.out,
                        !.unarity = 1,
                        !.position_ = st.position_ + 1])
      ELSE [st EXCEPT !.err = bad_symbol(st.position_)]

\* ExpressionSolver(std::string expression), as the state it leaves behind
construct(expression) ==
    LET data == remove_spaces(expression)
        scanned == scan(data, [position_ |-> 0, unarity |-> 1, stack |-> <<>>,
                               out |-> <<>>, err |-> NoError])
        done == IF scanned.err = NoError THEN flush(scanned) ELSE scanned
    IN  [data_ |-> data, position_ |-> done.position_, stack |-> done.stack,
         out |-> done.out, err |-> done.err]

\* the for loop of solve, from the i-th element of out on
RECURSIVE solve_loop(_, _, _)
solve_loop(o, i, stk) ==
    IF i > Len(o) THEN [stack |-> stk, err |-> NoError]
    ELSE LET element == o[i] IN
      IF element.label_ = "BINARY_OPERATION"
      THEN IF Len(stk) < 2 THEN [stack |-> stk, err |-> BadFormat]
           ELSE LET right == Top(stk)
                    left == Top(Pop(stk))
                    rest == Pop(Pop(stk))
                IN  IF left.label_ # "VALUE" \/ right.label_ # "VALUE"
                    THEN [stack |-> rest, err |-> BadFormat]
                    ELSE IF proceed_throws(element, left, right)
                    THEN [stack |-> rest, err |-> DivisionByZero]
                    ELSE solve_loop(o, i + 1, Append(rest, proceed(element, left, right)))
      ELSE solve_loop(o, i + 1, Append(stk, element))

\* solve(), as the stack it leaves, what it throws and what it returns
solve(o, stk) ==
    IF o = <<>> THEN [stack |-> stk, err |-> NoError, answer |-> <<"Z">>]
    ELSE LET r == solve_loop(o, 1, stk) IN
      IF r.err # NoError THEN [stack |-> r.stack, err |-> r.err, answer |-> <<>>]
      ELSE IF r.stack[1].label_ # "VALUE"
      THEN [stack |-> r.stack, err |-> BadFormat, answer |-> <<>>]
      ELSE IF to_roman_throws(r.stack[1].value_)
      THEN [stack |-> r.stack, err |-> Overflow, answer |-> <<>>]
      ELSE [stack |-> r.stack, err |-> NoError, answer |-> to_roman(r.stack[1].value_)]

-----------------------------------------------------------------------------
(* The program: main() makes an ExpressionSolver of a line and calls solve() *)

\* every text of at most n characters of alphabet
Lines(alphabet, n) == UNION {[1..k -> alphabet] : k \in 0..n}

NoSolver ==
    /\ raw = <<>> /\ data_ = <<>> /\ position_ = 0
    /\ stack = <<>> /\ out = <<>> /\ answer = <<>>

NoConverter == value = 0 /\ roman = <<>> /\ back = 0

\* a line is there, no solver is constructed yet
InitLine(lines) ==
    /\ raw \in lines
    /\ data_ = <<>> /\ position_ = 0
    /\ stack = <<>> /\ out = <<>> /\ answer = <<>>
    /\ err = NoError
    /\ pc = "new"
    /\ NoConverter

\* ExpressionSolver solver(s)
Construct ==
    /\ pc = "new"
    /\ LET s == construct(raw) IN
         /\ data_' = s.data_
         /\ position_' = s.position_
         /\ stack' = s.stack
         /\ out' = s.out
         /\ err' = s.err
         /\ pc' = IF s.err = NoError THEN "parsed" ELSE "failed"
    /\ UNCHANGED <<raw, answer, value, roman, back>>

\* solver.solve()
Solve ==
    /\ pc = "parsed"
    /\ LET r == solve(out, stack) IN
         /\ stack' = r.stack
         /\ err' = r.err
         /\ answer' = r.answer
         /\ pc' = IF r.err = NoError THEN "solved" ELSE "failed"
    /\ UNCHANGED <<raw, data_, position_, out, value, roman, back>>

NextSolver == Construct \/ Solve

(* The converter on its own: to_roman of an integer, to_int64 of the result *)

InitConverter ==
    /\ value \in -MaxValue..MaxValue
    /\ roman = <<>> /\ back = 0
    /\ err = NoError
    /\ pc = "encode"
    /\ NoSolver

\* converter.to_roman(value)
Encode ==
    /\ pc = "encode"
    /\ IF to_roman_throws(value)
       THEN /\ err' = Overflow
            /\ pc' = "overflow"
            /\ UNCHANGED roman
       ELSE /\ roman' = to_roman(value)
            /\ pc' = "decode"
            /\ UNCHANGED err
    /\ UNCHANGED <<raw, data_, position_, stack, out, answer, value, back>>

\* converter.to_int64(roman)
Decode ==
    /\ pc = "decode"
    /\ back' = to_int64(roman)
    /\ pc' = "decoded"
    /\ UNCHANGED <<raw, data_, position_, stack, out, answer, err, value, roman>>

NextConverter == Encode \/ Decode

\* lines of the numerals, the four operators and the brackets
ExprAlphabet == {"I", "V", "Z", "+", "-", "*", "/", "(", ")"}
InitExpr == InitLine(Lines(ExprAlphabet, MaxExprLen))
Spec == InitExpr /\ [][NextSolver]_vars

\* lines of recognised characters, for the bracket errors
BracketAlphabet == {"I", "-", "*", "(", ")"}
InitBrackets == InitLine(Lines(BracketAlphabet, MaxBracketLen))
SpecBrackets == InitBrackets /\ [][NextSolver]_vars

\* lines with white space and characters the solver does not know
SymbolAlphabet == {"I", "-", "(", ")", "@", " "}
InitSymbols == InitLine(Lines(SymbolAlphabet, MaxSymbolLen))
SpecSymbols == InitSymbols /\ [][NextSolver]_vars

\* a / b for small a and b of either sign, written as to_roman writes them
DivisionLines ==
    {to_roman(a) \o <<"/">> \o to_roman(b) : a, b \in -MaxOperand..MaxOperand}
InitDivision == InitLine(DivisionLines)
SpecDivision == InitDivision /\ [][NextSolver]_vars

\* one or two literals around the bound 3999, signed or not
Thousands(k) == [i \in 1..k |-> "M"]
LargeLiterals == {<<"I">>} \cup {Thousands(k) : k \in 1..MaxThousands}
Signs == {<<>>, <<"-">>}
LargeLines ==
    {s \o a : s \in Signs, a \in LargeLiterals}
    \cup {s \o a \o <<o>> \o t \o b :
            s \in Signs, a \in LargeLiterals, o \in {"+", "-", "*", "/"},
            t \in Signs, b \in LargeLiterals}
InitLarge == InitLine(LargeLines)
SpecBound == (InitConverter \/ InitLarge) /\ [][NextConverter \/ NextSolver]_vars

SpecConverter == InitConverter /\ [][NextConverter]_vars

-----------------------------------------------------------------------------
(* Properties *)

Range(s) == {s[i] : i \in 1..Len(s)}

Letters == {"I", "V", "X", "L", "C", "D", "M", "Z"}
Operators == {"+", "-", "*", "/"}

\* the quotient of l by r rounded toward zero
TowardZero(l, r) ==
    IF (l >= 0 /\ r > 0) \/ (l <= 0 /\ r < 0)
    THEN abs(l) \div abs(r)
    ELSE -(abs(l) \div abs(r))

IsQuotient(o) ==
    /\ Len(o) = 3
    /\ o[1].label_ = "VALUE" /\ o[2].label_ = "VALUE"
    /\ o[3].label_ = "BINARY_OPERATION" /\ o[3].value_ = 47

\* C1: evaluating [Value(left), Value(right), Operator('/')] with right # 0
\* yields the quotient of left by right rounded toward zero, whatever the
\* signs of left and right.
C1_DivisionTowardZero ==
    (pc = "solved" /\ IsQuotient(out) /\ out[2].value_ # 0)
        => stack[1].value_ = TowardZero(out[1].value_, out[2].value_)

\* C2 as stated: to_int64 of the text to_roman made of v is v, for every v
\* with 0 < |v| <= 3999, negative ones included.
C2_RoundTripEitherSign ==
    (pc = "decoded" /\ value # 0) => back = value

\* C2, amended: to_int64 of the text to_roman made of v is v for every v with
\* 0 < v <= 3999; for -3999 <= v < 0 the text is a '-' and then a numeral
\* that to_int64 reads as -v.
C2_RoundTrip ==
    pc = "decoded" =>
        /\ value > 0 => back = value
        /\ value < 0 => Head(roman) = "-" /\ to_int64(Tail(roman)) = -value

C2_Witness ==
    pc = "decoded" /\ value = 3999 /\ back = 3999
        /\ roman = <<"M", "M", "M", "C", "M", "X", "C", "I", "X">>

\* C8: to_roman fails with "Roman number overflow" exactly when |value| > 3999,
\* and nothing else enforces the bound: a line whose literals or intermediate
\* results are beyond 3999 in magnitude has a result when its final value is
\* not, and fails with the overflow when it is.
C8_OverflowOnlyBeyondBound ==
    /\ pc \in {"decode", "decoded"} => abs(value) <= 3999
    /\ pc = "overflow" => abs(value) > 3999 /\ err = Overflow
    /\ (pc \in {"solved", "failed"} /\ data_ # <<>>) =>
          /\ err \in {NoError, Overflow}
          /\ err = Overflow <=> abs(stack[1].value_) > 3999
          /\ err = NoError <=> pc = "solved"
          /\ pc = "solved" => answer = to_roman(stack[1].value_)

C8_Witness ==
    /\ pc = "solved"
    /\ raw = <<"M", "M", "M", "M", "-", "M">>
    /\ out[1].value_ = 4000
    /\ answer = <<"M", "M", "M">>

Max(S) == CHOOSE x \in S : \A y \in S : y <= x

ValuesOf(o) == SelectSeq(o, LAMBDA e : e.label_ = "VALUE")

\* C3: at the end of evaluating a non-empty postfix sequence, solve() returns
\* a result only when exactly one value is left on its stack; with two or
\* more left it fails with "Invalid expression format".
C3_ResultFromOneValue ==
    (pc = "solved" /\ out # <<>>) => Len(stack) = 1

IsNumeral(text) ==
    text # <<>> /\ (text = <<"Z">> \/ Range(text) \subseteq Letters \ {"Z"})

RECURSIVE RunEnd(_, _)
RunEnd(data, i) ==
    IF i < Len(data) /\ data[i + 1] \in Letters THEN RunEnd(data, i + 1) ELSE i

\* the numeral run that starts at place i directly follows a '-' that is the
\* first character or directly follows an operator character
AfterSign(data, i) ==
    /\ i > 1 /\ data[i - 1] = "-"
    /\ (i = 2 \/ data[i - 2] \in Operators)

\* the values of the numeral runs of data from place i on, each negated
\* when it directly follows a sign
RECURSIVE SignedRuns(_, _)
SignedRuns(data, i) ==
    IF i > Len(data) THEN <<>>
    ELSE IF data[i] \in Letters
    THEN LET e == RunEnd(data, i)
             n == to_int64(SubSeq(data, i, e))
         IN  <<IF AfterSign(data, i) THEN -n ELSE n>> \o SignedRuns(data, e + 1)
    ELSE SignedRuns(data, i + 1)

\* the '-' of data that are signs of a numeral
SignPlaces(data) ==
    {i \in 1..Len(data) - 1 : data[i + 1] \in Letters /\ AfterSign(data, i + 1)}

\* C5: a '-' that is the first character or directly follows an operator
\* character, and is directly followed by a numeral letter, emits no token;
\* the numeral run after it is emitted as Value(-decode(run)), and every
\* other numeral run as Value(+decode(run)).
C5_SignOfNumerals ==
    pc = "parsed" =>
        /\ [i \in 1..Len(ValuesOf(out)) |-> ValuesOf(out)[i].value_]
              = SignedRuns(data_, 1)
        /\ Len(out) - Len(ValuesOf(out))
              <= Cardinality({i \in 1..Len(data_) : data_[i] \in Operators})
                 - Cardinality(SignPlaces(data_))

\* the number of '(' less the number of ')' among the first i characters
RECURSIVE Depth(_, _)
Depth(text, i) ==
    IF i = 0 THEN 0
    ELSE Depth(text, i - 1) + (IF text[i] = "(" THEN 1 ELSE IF text[i] = ")" THEN -1 ELSE 0)

\* the places of text, outside all brackets, that hold one of ops
TopLevel(text, ops) ==
    {i \in 1..Len(text) : text[i] \in ops /\ Depth(text, i) = 0}

\* where the conventional parse tree of text has its root: the last + or -
\* outside all brackets, or else the last * or /; 0 when there is none
Root(text) ==
    IF TopLevel(text, {"+", "-"}) # {} THEN Max(TopLevel(text, {"+", "-"}))
    ELSE IF TopLevel(text, {"*", "/"}) # {} THEN Max(TopLevel(text, {"*", "/"}))
    ELSE 0

\* text is an infix expression of numerals, binary operators and brackets
RECURSIVE WellFormed(_)
WellFormed(text) ==
    IF text = <<>> THEN FALSE
    ELSE IF Root(text) # 0
    THEN /\ WellFormed(SubSeq(text, 1, Root(text) - 1))
         /\ WellFormed(SubSeq(text, Root(text) + 1, Len(text)))
    ELSE IF text[1] = "(" /\ text[Len(text)] = ")"
    THEN WellFormed(SubSeq(text, 2, Len(text) - 1))
    ELSE IsNumeral(text)

\* the postfix order of the conventional parse tree of a well-formed text
RECURSIVE RefPostfix(_)
RefPostfix(text) ==
    IF Root(text) # 0
    THEN RefPostfix(SubSeq(text, 1, Root(text) - 1))
         \o RefPostfix(SubSeq(text, Root(text) + 1, Len(text)))
         \o <<[value_ |-> Ord(text[Root(text)]), label_ |-> "BINARY_OPERATION",
               priority_ |-> IF text[Root(text)] \in {"+", "-"} THEN 0 ELSE 1]>>
    ELSE IF text[1] = "("
    THEN RefPostfix(SubSeq(text, 2, Len(text) - 1))
    ELSE <<[value_ |-> to_int64(text), label_ |-> "VALUE", priority_ |-> 3]>>

\* the value of the conventional parse tree of a well-formed text without /
RECURSIVE RefValue(_)
RefValue(text) ==
    IF Root(text) # 0
    THEN LET left == RefValue(SubSeq(text, 1, Root(text) - 1))
             right == RefValue(SubSeq(text, Root(text) + 1, Len(text)))
         IN  CASE text[Root(text)] = "+" -> left + right
               [] text[Root(text)] = "-" -> left - right
               [] text[Root(text)] = "*" -> left * right
    ELSE IF text[1] = "("
    THEN RefValue(SubSeq(text, 2, Len(text) - 1))
    ELSE to_int64(text)

\* the places of data where a '-' directly follows a numeral letter
MinusAfterLetter(data) ==
    {i \in 2..Len(data) : data[i] = "-" /\ data[i - 1] \in Letters}

MinusTokens(o) ==
    {i \in 1..Len(o) : o[i].label_ = "BINARY_OPERATION" /\ o[i].value_ = 45}

\* data is "(E)-N", E a well-formed expression and N a numeral, the ')' at k
IsBracketMinus(data, k) ==
    /\ 2 < k /\ k + 1 < Len(data)
    /\ data[1] = "(" /\ data[k] = ")" /\ data[k + 1] = "-"
    /\ WellFormed(SubSeq(data, 2, k - 1))
    /\ IsNumeral(SubSeq(data, k + 2, Len(data)))

\* C4: a '-' that directly follows a numeral letter or a ')' is the binary
\* operator, never a sign: the parse emits an Operator('-') for it, and
\* "(E)-N" evaluates to the value of E less the value of N.
C4_MinusAfterOperandIsBinary ==
    /\ pc = "parsed" =>
          Cardinality(MinusTokens(out)) >= Cardinality(MinusAfterLetter(data_))
    /\ \A k \in 1..Len(data_) :
          (pc # "new" /\ IsBracketMinus(data_, k)) =>
              /\ err \notin {BadBrackets} \cup {BadSymbol(p) : p \in 1..Len(data_)}
              /\ out[Len(out)] = [value_ |-> 45, label_ |-> "BINARY_OPERATION", priority_ |-> 0]
              /\ ("/" \notin Range(data_) /\ pc # "parsed") =>
                    /\ pc = "solved"
                    /\ answer = to_roman(RefValue(SubSeq(data_, 2, k - 1))
                                         - to_int64(SubSeq(data_, k + 2, Len(data_))))

\* C6: of a well-formed infix expression without unary minus the parse is the
\* postfix order of the conventional parse tree (* and / bind tighter than +
\* and -, equal ranks associate to the left, a bracketed expression is one
\* operand), and solve() applies each operator to (left, right) in that order.
C6_ConventionalParseTree ==
    (pc # "new" /\ WellFormed(data_)) =>
        /\ err \notin {BadBrackets} \cup {BadSymbol(p) : p \in 1..Len(data_)}
        /\ out = RefPostfix(data_)
        /\ ("/" \notin Range(data_) /\ pc # "parsed") =>
              /\ pc = "solved"
              /\ stack = <<[value_ |-> RefValue(data_), label_ |-> "VALUE", priority_ |-> 3]>>
              /\ answer = to_roman(RefValue(data_))

\* the brackets of text match: no ')' without an earlier unmatched '(' and
\* no '(' left open
Balanced(text) ==
    /\ \A i \in 1..Len(text) : Depth(text, i) >= 0
    /\ Depth(text, Len(text)) = 0

Recognised(c) == c \in Letters \cup Operators \cup {"(", ")"}

\* C7: of a line of recognised characters the parse fails with "Invalid
\* bracket sequence in expression" if and only if its brackets do not match,
\* and the postfix output of a successful parse holds no Bracket token.
C7_BracketErrorIffUnbalanced ==
    (pc # "new" /\ \A i \in 1..Len(data_) : Recognised(data_[i])) =>
        /\ err = BadBrackets <=> ~Balanced(data_)
        /\ err # BadBrackets => \A i \in 1..Len(out) : out[i].label_ # "BRACKET"

C7_Witness ==
    /\ pc = "failed" /\ err = BadBrackets
    /\ \E i \in 1..Len(data_) :
          /\ data_[i] = "(" /\ Depth(data_, Len(data_)) > 0
          /\ \E j \in i + 1..Len(data_) : data_[j] = "*"

\* the places of line that hold neither white space nor a recognised character
Unknown(line) ==
    {i \in 1..Len(line) : ~Recognised(line[i]) /\ line[i] \notin {" ", "\t", "\n", "\r", "\f"}}

\* how many of the first i characters of line are not white space
Printed(line, i) ==
    Cardinality({j \in 1..i : line[j] \notin {" ", "\t", "\n", "\r", "\f"}})

\* C9: when the scan reaches a character that is no numeral letter, operator
\* or bracket, and no ')' before it lacks its '(', the parse fails with "Bad
\* symbol on position p", p the place of that character, counted from 1, in
\* the line without its white space.
C9_BadSymbolPosition ==
    (pc # "new" /\ Unknown(raw) # {}) =>
        LET first == CHOOSE i \in Unknown(raw) : \A j \in Unknown(raw) : i <= j
        IN  (\A j \in 1..first - 1 : Depth(raw, j) >= 0)
                => err = BadSymbol(Printed(raw, first))

C9_Witness ==
    /\ pc = "failed"
    /\ err = BadSymbol(4)
    /\ raw = <<"I", "-", " ", "I", "@">>

\* text holds a Z next to another numeral letter
CombinedZero(text) ==
    \E i \in 1..Len(text) - 1 :
        /\ text[i] \in Letters /\ text[i + 1] \in Letters
        /\ "Z" \in {text[i], text[i + 1]}

\* C10: a numeral run of more than one letter that holds a Z is never
\* accepted as an operand; a parse that succeeds has emitted a Value for every
\* numeral run of the line, so no line with such a run parses.
C10_ZeroStandsAlone ==
    pc = "parsed" => ~CombinedZero(data_)

=============================================================================
